---- MODULE Spec2Model ----
(***************************************************************************)
(* Model of data/plugins/status_notifier_item_plugin.py: the tray item     *)
(* service (StatusNotifierItem), the menu service (DbusMenu) and the       *)
(* plugin that drives both (StatusNotifierItemPlugin).                     *)
(*                                                                         *)
(* One action per method.  Every action records the call it models in      *)
(* `call`, the state it started from in `pre`, what it handed back to its  *)
(* caller in `result`, the D-Bus signals it emitted in `signals` (in       *)
(* emission order) and the calls it made on the window in `view_calls`.    *)
(* A Python exception leaving the method is the outcome "raise".           *)
(***************************************************************************)
EXTENDS Integers, Sequences, FiniteSets, TLC

VARIABLES
    is_activated,   \* StatusNotifierItemPlugin.is_activated
    status,         \* StatusNotifierItem.status
    icon_name,      \* StatusNotifierItem.icon_name
    items,          \* DbusMenu.items
    revision,       \* DbusMenu.revision
    call,           \* the last method call: [object, op, args, services, relay]
    pre,            \* the state that call started from
    result,         \* its outcome: [outcome, value]
    signals,        \* the signals it emitted, in order
    view_calls      \* the calls it made on the window (view)

state == <<is_activated, status, icon_name, items, revision>>
vars == <<is_activated, status, icon_name, items, revision,
          call, pre, result, signals, view_calls>>

(***************************************************************************)
(* Bounds of the input sets.                                               *)
(***************************************************************************)
MaxDepth == 2      \* recursion depths asked of GetLayout are -1 .. MaxDepth
MaxBatch == 2      \* longest EventGroup batch
UnknownId == 9999  \* an id that names no menu entry
MaxPercent == 100  \* the timer's elapsed percent ranges over 0 .. MaxPercent

(***************************************************************************)
(* Program constants.                                                      *)
(***************************************************************************)
Passive == "Passive"
Active == "Active"
\* the class StatusNotifierItemStatus assigns Passive and Active only
\* (its NeedsAttention line is an annotation without a value)
StatusValues == {Passive, Active}

STATUS_NOTIFIER_ITEM_IFACE == "org.kde.StatusNotifierItem"
DBUSMENU_IFACE == "com.canonical.dbusmenu"

\* the three classes whose methods are called
PluginObject == "StatusNotifierItemPlugin"
ItemObject == "StatusNotifierItem"
MenuObject == "DbusMenu"

\* DbusMenu.SHOW and DbusMenu.HIDE (HIDE is a reserved word of the language)
SHOW_ID == 1
HIDE_ID == 2

ATTRIBUTES ==
    << "children-display", "disposition", "enabled", "label",
       "toggle-state", "toggle-type", "type", "visible" >>

None == "None"

Range(s) == {s[i] : i \in 1..Len(s)}

(***************************************************************************)
(* DbusMenu.__init__: the three entries.  The bound closures               *)
(* `lambda: view.show()` and `lambda: view.hide()` are kept as the name of *)
(* the window method they call.                                            *)
(***************************************************************************)
ItemAttributes(children_display, label, visible) ==
    "children-display" :> children_display
    @@ "disposition" :> "normal"
    @@ "enabled" :> TRUE
    @@ "label" :> label
    @@ "toggle-state" :> (-1)
    @@ "toggle-type" :> ""
    @@ "type" :> "standard"
    @@ "visible" :> visible

\* variant of InitItems: both closures end up bound to the last one written
InitItems_late_binding ==
    0 :> (ItemAttributes("submenu", "", TRUE) @@ "submenu" :> <<SHOW_ID, HIDE_ID>>)
    @@ SHOW_ID :> (ItemAttributes("", "Show", FALSE) @@ "clicked" :> "hide")
    @@ HIDE_ID :> (ItemAttributes("", "Hide", TRUE) @@ "clicked" :> "hide")

InitItems ==
    0 :> (ItemAttributes("submenu", "", TRUE) @@ "submenu" :> <<SHOW_ID, HIDE_ID>>)
    @@ SHOW_ID :> (ItemAttributes("", "Show", FALSE) @@ "clicked" :> "show")
    @@ HIDE_ID :> (ItemAttributes("", "Hide", TRUE) @@ "clicked" :> "hide")

\* iteration order of self.items.items(): insertion order of the dict
ItemsOrder == <<0, SHOW_ID, HIDE_ID>>

\* the keys of an entry that hold a callable
Callables == {"clicked"}

(***************************************************************************)
(* Outcomes of a call.                                                     *)
(***************************************************************************)
Return(v) == [outcome |-> "return", value |-> v]
Raise(e) == [outcome |-> "raise", value |-> e]

Snapshot ==
    [is_activated |-> is_activated, status |-> status,
     icon_name |-> icon_name, items |-> items, revision |-> revision]

Signal(name, args) == [signal |-> name, args |-> args]

(***************************************************************************)
(* StatusNotifierItem                                                      *)
(***************************************************************************)
\* PropertiesChanged(interface_name, changed_properties, invalidated_properties)
PropertiesChanged(interface_name, changed_properties, invalidated_properties) ==
    Signal("PropertiesChanged",
           <<interface_name, changed_properties, invalidated_properties>>)

\* variant of change_status without the equality test
change_status_always_emits(cur_status, new_status) ==
    [status |-> new_status,
     signals |-> <<PropertiesChanged(STATUS_NOTIFIER_ITEM_IFACE,
                                     "Status" :> new_status, <<>>)>>]

\* change_status: the new status and the signals emitted
change_status(cur_status, new_status) ==
    IF cur_status = new_status
    THEN [status |-> cur_status, signals |-> <<>>]
    ELSE [status |-> new_status,
          signals |-> <<PropertiesChanged(STATUS_NOTIFIER_ITEM_IFACE,
                                          "Status" :> new_status, <<>>)>>]

\* variant of change_icon that notifies without storing the new name
change_icon_not_stored(cur_icon, new_icon) ==
    IF cur_icon = new_icon
    THEN [icon_name |-> cur_icon, signals |-> <<>>]
    ELSE [icon_name |-> cur_icon,
          signals |-> <<PropertiesChanged(STATUS_NOTIFIER_ITEM_IFACE,
                                          "IconName" :> new_icon, <<>>)>>]

\* change_icon: the new icon name and the signals emitted
change_icon(cur_icon, new_icon) ==
    IF cur_icon = new_icon
    THEN [icon_name |-> cur_icon, signals |-> <<>>]
    ELSE [icon_name |-> new_icon,
          signals |-> <<PropertiesChanged(STATUS_NOTIFIER_ITEM_IFACE,
                                          "IconName" :> new_icon, <<>>)>>]

\* StatusNotifierItem.__init__: self._dbus_interfaces, written once with the
\* status and the icon name of construction time and never written again
StatusNotifierItem_dbus_interfaces ==
    STATUS_NOTIFIER_ITEM_IFACE :>
        ( "AttentionIconName" :> "tomate-attention"
          @@ "AttentionIconPixmap" :> <<>>
          @@ "Category" :> "ApplicationStatus"
          @@ "IconName" :> "tomate-idle"
          @@ "IconPixmap" :> <<>>
          @@ "Id" :> "tomate"
          @@ "ItemIsMenu" :> FALSE
          @@ "Menu" :> "/MenuBar"
          @@ "OverlayIconName" :> ""
          @@ "OverlayIconPixmap" :> <<>>
          @@ "Status" :> Passive
          @@ "Title" :> "Tomate"
          @@ "ToolTip" :> <<"", <<>>, "", "">>
          @@ "WindowId" :> 0 )

\* Get: self._dbus_interfaces.get(interface_name, {}).get(property_name)
ItemGetResult(interface_name, property_name) ==
    LET ifaces == StatusNotifierItem_dbus_interfaces IN
    IF interface_name \notin DOMAIN ifaces THEN Return(None)
    ELSE IF property_name \notin DOMAIN ifaces[interface_name] THEN Return(None)
    ELSE Return(ifaces[interface_name][property_name])

\* GetAll: self._dbus_interfaces.get(interface_name, <the item interface's dict>)
ItemGetAllResult(interface_name) ==
    LET ifaces == StatusNotifierItem_dbus_interfaces IN
    IF interface_name \in DOMAIN ifaces THEN Return(ifaces[interface_name])
    ELSE Return(ifaces[STATUS_NOTIFIER_ITEM_IFACE])

\* ContextMenu, Activate, SecondaryActivate and Scroll: the body is `pass`
ItemInertResult(a, b) == Return(None)

\* DbusMenu._dbus_interfaces, assigned once in __init__ and never written
DbusMenu_dbus_interfaces ==
    DBUSMENU_IFACE :>
        ( "Status" :> "normal"
          @@ "TextDirection" :> "ltr"
          @@ "Version" :> 4 )

\* DbusMenu.Get: self._dbus_interfaces.get(interface_name, {}).get(property_name)
MenuGetResult(interface_name, property_name) ==
    LET ifaces == DbusMenu_dbus_interfaces IN
    IF interface_name \notin DOMAIN ifaces THEN Return(None)
    ELSE IF property_name \notin DOMAIN ifaces[interface_name] THEN Return(None)
    ELSE Return(ifaces[interface_name][property_name])

\* DbusMenu.GetAll: self._dbus_interfaces.get(interface_name, <the menu interface's dict>)
MenuGetAllResult(interface_name) ==
    LET ifaces == DbusMenu_dbus_interfaces IN
    IF interface_name \in DOMAIN ifaces THEN Return(ifaces[interface_name])
    ELSE Return(ifaces[DBUSMENU_IFACE])

(***************************************************************************)
(* DbusMenu                                                                *)
(***************************************************************************)
\* properties is None or not len(properties)  ->  DbusMenuItem.ATTRIBUTES
\* (an absent list and an empty list are both the empty sequence here)
EffectiveProperties(properties) ==
    IF Len(properties) = 0 THEN ATTRIBUTES ELSE properties

\* {k: item[k] for k in properties} raises KeyError on a key the entry lacks
_render_item_raises(item, properties) ==
    \E k \in Range(EffectiveProperties(properties)) : k \notin DOMAIN item

_render_item(item, properties) ==
    [k \in Range(EffectiveProperties(properties)) |-> item[k]]

_render_submenu_raises(its, item, properties) ==
    /\ "submenu" \in DOMAIN item
    /\ \E i \in 1..Len(item["submenu"]) :
          \/ item["submenu"][i] \notin DOMAIN its
          \/ _render_item_raises(its[item["submenu"][i]], properties)

\* variant of _render_submenu that does not hand the filter to the children
_render_submenu_unfiltered(its, item, properties) ==
    IF "submenu" \in DOMAIN item
    THEN [i \in 1..Len(item["submenu"]) |->
            << item["submenu"][i],
               _render_item(its[item["submenu"][i]], <<>>),
               <<>> >>]
    ELSE <<>>

_render_submenu(its, item, properties) ==
    IF "submenu" \in DOMAIN item
    THEN [i \in 1..Len(item["submenu"]) |->
            << item["submenu"][i],
               _render_item(its[item["submenu"][i]], properties),
               <<>> >>]
    ELSE <<>>

ItemsPropertiesUpdated(update_props, remove_props) ==
    Signal("ItemsPropertiesUpdated", <<update_props, remove_props>>)

\* variant of update_menu that writes the same flag to both entries
update_menu_same_flag(its, is_visible) ==
    LET new == [its EXCEPT ![SHOW_ID]["visible"] = is_visible,
                           ![HIDE_ID]["visible"] = is_visible]
    IN [items |-> new,
        signals |-> <<ItemsPropertiesUpdated(
                        [i \in 1..Len(ItemsOrder) |->
                            <<ItemsOrder[i], _render_item(new[ItemsOrder[i]], <<>>)>>],
                        <<>>)>>]

\* variant of update_menu that writes the flag of Show only
update_menu_show_only(its, is_visible) ==
    LET new == [its EXCEPT ![SHOW_ID]["visible"] = ~is_visible]
    IN [items |-> new,
        signals |-> <<ItemsPropertiesUpdated(
                        [i \in 1..Len(ItemsOrder) |->
                            <<ItemsOrder[i], _render_item(new[ItemsOrder[i]], <<>>)>>],
                        <<>>)>>]

\* variant of update_menu that announces a new layout revision as well
update_menu_layout_updated(its, is_visible) ==
    LET new == [its EXCEPT ![SHOW_ID]["visible"] = ~is_visible,
                           ![HIDE_ID]["visible"] = is_visible]
    IN [items |-> new,
        signals |-> <<ItemsPropertiesUpdated(
                        [i \in 1..Len(ItemsOrder) |->
                            <<ItemsOrder[i], _render_item(new[ItemsOrder[i]], <<>>)>>],
                        <<>>),
                      Signal("LayoutUpdated", <<1, 0>>)>>]

\* variant of update_menu that emits the notification before it writes the flags
update_menu_emits_first(its, is_visible) ==
    LET new == [its EXCEPT ![SHOW_ID]["visible"] = ~is_visible,
                           ![HIDE_ID]["visible"] = is_visible]
    IN [items |-> new,
        signals |-> <<ItemsPropertiesUpdated(
                        [i \in 1..Len(ItemsOrder) |->
                            <<ItemsOrder[i], _render_item(its[ItemsOrder[i]], <<>>)>>],
                        <<>>)>>]

\* update_menu: the new items and the signals emitted
update_menu(its, is_visible) ==
    LET new == [its EXCEPT ![SHOW_ID]["visible"] = ~is_visible,
                           ![HIDE_ID]["visible"] = is_visible]
    IN [items |-> new,
        signals |-> <<ItemsPropertiesUpdated(
                        [i \in 1..Len(ItemsOrder) |->
                            <<ItemsOrder[i], _render_item(new[ItemsOrder[i]], <<>>)>>],
                        <<>>)>>]

\* variant of GetLayout that looks the parent up with a default entry
GetLayoutResult_default_entry(its, rev, parent_id, recursion_depth, property_names) ==
    IF parent_id \notin DOMAIN its
    THEN Return(<< rev, << parent_id, [k \in {} |-> None], <<>> >> >>)
    ELSE IF _render_item_raises(its[parent_id], property_names) THEN Raise("KeyError")
    ELSE IF _render_submenu_raises(its, its[parent_id], property_names) THEN Raise("KeyError")
    ELSE Return(<< rev,
                   << parent_id,
                      _render_item(its[parent_id], property_names),
                      _render_submenu(its, its[parent_id], property_names) >> >>)

\* GetLayout(parent_id, recursion_depth, property_names)
GetLayoutResult(its, rev, parent_id, recursion_depth, property_names) ==
    IF parent_id \notin DOMAIN its THEN Raise("KeyError")
    ELSE IF _render_item_raises(its[parent_id], property_names) THEN Raise("KeyError")
    ELSE IF _render_submenu_raises(its, its[parent_id], property_names) THEN Raise("KeyError")
    ELSE Return(<< rev,
                   << parent_id,
                      _render_item(its[parent_id], property_names),
                      _render_submenu(its, its[parent_id], property_names) >> >>)

\* Event(idx, event_id, data, timestamp): self.items[idx].get(event_id, lambda: None)()
EventResult(its, idx, event_id) ==
    IF idx \notin DOMAIN its THEN Raise("KeyError")
    ELSE IF event_id \notin DOMAIN its[idx] THEN Return(None)
    ELSE IF event_id \in Callables THEN Return(None)
    ELSE Raise("TypeError")

EventViewCalls(its, idx, event_id) ==
    IF idx \in DOMAIN its /\ event_id \in DOMAIN its[idx] /\ event_id \in Callables
    THEN <<its[idx][event_id]>>
    ELSE <<>>

\* EventGroup(events): return dbus.Array(signature="i")
EventGroupResult(its, events) == Return(<<>>)

EventGroupViewCalls(its, events) == <<>>

\* GetGroupProperties(ids, property_names)
GetGroupPropertiesResult(its, ids, property_names) ==
    LET found == SelectSeq(ids, LAMBDA idx : idx \in DOMAIN its)
    IN IF \E i \in 1..Len(found) : _render_item_raises(its[found[i]], property_names)
       THEN Raise("KeyError")
       ELSE Return([i \in 1..Len(found) |->
                      <<found[i], _render_item(its[found[i]], property_names)>>])

\* GetProperty(idx, name): return self.items[idx][name]
GetPropertyResult(its, idx, name) ==
    IF idx \notin DOMAIN its THEN Raise("KeyError")
    ELSE IF name \notin DOMAIN its[idx] THEN Raise("KeyError")
    ELSE Return(its[idx][name])

\* variant of AboutToShow that asks the caller to refresh the menu
AboutToShowResult_refresh(its, idx) == Return(TRUE)

\* AboutToShow(idx): return False
AboutToShowResult(its, idx) == Return(FALSE)

\* AboutToShowGroup(ids, updates_needed): two empty arrays
AboutToShowGroupResult(its, ids, updates_needed) == Return(<< <<>>, <<>> >>)

(***************************************************************************)
(* StatusNotifierItemPlugin                                                *)
(***************************************************************************)
\* variant of the plugin's change_status without the is_activated guard
Plugin_change_status_unguarded(activated, cur_status, new_status) ==
    change_status(cur_status, new_status)

\* change_status / change_icon / change_visibility: guarded by is_activated
Plugin_change_status(activated, cur_status, new_status) ==
    IF activated THEN change_status(cur_status, new_status)
    ELSE [status |-> cur_status, signals |-> <<>>]

\* variant of deactivate that runs super().deactivate() before the status change
Plugin_deactivate_flag_first(activated, cur_status) ==
    LET r == Plugin_change_status(FALSE, cur_status, Passive)
    IN [status |-> r.status, signals |-> r.signals, is_activated |-> FALSE]

\* deactivate: self.change_status(Passive), then super().deactivate() clears
\* is_activated
Plugin_deactivate(activated, cur_status) ==
    LET r == Plugin_change_status(activated, cur_status, Passive)
    IN [status |-> r.status, signals |-> r.signals, is_activated |-> FALSE]

\* variant of the plugin's change_icon without the is_activated guard
Plugin_change_icon_unguarded(activated, cur_icon, new_icon) ==
    change_icon(cur_icon, new_icon)

Plugin_change_icon(activated, cur_icon, new_icon) ==
    IF activated THEN change_icon(cur_icon, new_icon)
    ELSE [icon_name |-> cur_icon, signals |-> <<>>]

\* variant of the plugin's change_visibility without the is_activated guard
Plugin_change_visibility_unguarded(activated, its, view_is_visible) ==
    update_menu(its, view_is_visible)

Plugin_change_visibility(activated, its, view_is_visible) ==
    IF activated THEN update_menu(its, view_is_visible)
    ELSE [items |-> its, signals |-> <<>>]

\* What a window method called by an entry's closure (view.show(), view.hide())
\* does to the menu: the window is the host's, and it either stays silent
\* during the call or announces its new visibility at once, which runs
\* on_window_show / on_window_hide of the plugin inside the call.
EventRelay(activated, its, window_calls, announced) ==
    IF window_calls = <<>> \/ ~announced THEN [items |-> its, signals |-> <<>>]
    ELSE Plugin_change_visibility(activated, its, window_calls[1] = "show")

\* "{:02.0f}".format(percent), percent given in tenths: round half to even,
\* then pad with zeros to at least two digits
Digit(d) == <<"0", "1", "2", "3", "4", "5", "6", "7", "8", "9">>[d + 1]

RECURSIVE Decimal(_)
Decimal(n) == IF n < 10 THEN Digit(n) ELSE Decimal(n \div 10) \o Digit(n % 10)

\* variant of RoundHalfEven that drops the fraction
RoundHalfEven_truncates(tenths) == tenths \div 10

RoundHalfEven(tenths) ==
    LET q == tenths \div 10
        r == tenths % 10
    IN IF r < 5 THEN q
       ELSE IF r > 5 THEN q + 1
       ELSE IF q % 2 = 0 THEN q ELSE q + 1

Format02(tenths) ==
    LET n == RoundHalfEven(tenths)
    IN IF n < 10 THEN "0" \o Decimal(n) ELSE Decimal(n)

icon_name_of(tenths) == "tomate-" \o Format02(tenths)

(***************************************************************************)
(* Inputs                                                                  *)
(***************************************************************************)
\* new_status of change_status: the two values of the class, and the third
\* status of the protocol handed over as a plain string
StatusInputs == StatusValues \cup {"NeedsAttention"}
Ids == {0, SHOW_ID, HIDE_ID, UnknownId}
Depths == (-1)..MaxDepth
PropertyFilters ==
    { <<>>, <<"visible">>, <<"label", "visible">>, <<"type", "enabled", "type">>,
      <<"label", "bogus">>, <<"submenu">>, <<"clicked">> }
EventIds == {"clicked", "hovered", "x-tomate-test", "label"}
InterfaceNames == {STATUS_NOTIFIER_ITEM_IFACE, "org.example.Unknown"}
ItemPropertyNames == {"Status", "IconName", "Title", "Bogus"}
IconNames == {"tomate-idle", "tomate-00", "tomate-attention"}
PercentTenths == {0, 5, 15, 996}
\* the grid of percents, in tenths: every multiple of 0.5 in [0, MaxPercent]
\* and every multiple of 0.1 in the last percent
TimerGrid ==
    {t \in 0..(10 * MaxPercent) : t % 5 = 0 \/ t >= 10 * (MaxPercent - 1)}
BoundedSeq(S, n) == UNION {[1..k -> S] : k \in 0..n}
\* batches are drawn over a click on Hide, a click on an unknown id and a hover
BatchEvents == { <<HIDE_ID, "clicked">>, <<UnknownId, "clicked">>, <<SHOW_ID, "hovered">> }
EventBatches == BoundedSeq(BatchEvents, MaxBatch)
MenuPropertyNames == {"label", "visible", "bogus"}
MenuInterfaceNames == {DBUSMENU_IFACE, "org.example.Unknown"}
MenuBusPropertyNames == {"Version", "Status", "Bogus"}
Coordinates == {0, 640}
ScrollDeltas == {-1, 1}
Orientations == {"horizontal", "vertical"}
IdLists == { <<>>, <<SHOW_ID, HIDE_ID>>, <<HIDE_ID, UnknownId, SHOW_ID>>, <<0>>, <<UnknownId>> }

(***************************************************************************)
(* Initial state: the plugin was constructed and configured, the services  *)
(* registered; the plugin is not activated yet.                            *)
(***************************************************************************)
Init ==
    /\ is_activated = FALSE
    /\ status = Passive
    /\ icon_name = "tomate-idle"
    /\ items = InitItems
    /\ revision = 0
    /\ call = [object |-> PluginObject, op |-> "__init__", args |-> <<>>,
               services |-> "registered", relay |-> FALSE]
    /\ pre = [is_activated |-> FALSE, status |-> Passive,
              icon_name |-> "tomate-idle", items |-> InitItems, revision |-> 0]
    /\ result = Return(None)
    /\ signals = <<>>
    /\ view_calls = <<>>

\* a call made on the configured plugin and its two registered services
Called(object, op, args) ==
    /\ call' = [object |-> object, op |-> op, args |-> args,
               services |-> "registered", relay |-> FALSE]
    /\ pre' = Snapshot

(***************************************************************************)
(* Actions: StatusNotifierItem                                             *)
(***************************************************************************)
ChangeStatus ==
    \E new_status \in StatusInputs :
        LET r == change_status(status, new_status) IN
        /\ Called(ItemObject, "change_status", <<new_status>>)
        /\ status' = r.status
        /\ signals' = r.signals
        /\ result' = Return(None)
        /\ view_calls' = <<>>
        /\ UNCHANGED <<is_activated, icon_name, items, revision>>

ChangeIcon ==
    \E new_icon \in IconNames :
        LET r == change_icon(icon_name, new_icon) IN
        /\ Called(ItemObject, "change_icon", <<new_icon>>)
        /\ icon_name' = r.icon_name
        /\ signals' = r.signals
        /\ result' = Return(None)
        /\ view_calls' = <<>>
        /\ UNCHANGED <<is_activated, status, items, revision>>

ItemGet ==
    \E interface_name \in InterfaceNames, property_name \in ItemPropertyNames :
        /\ Called(ItemObject, "Get", <<interface_name, property_name>>)
        /\ result' = ItemGetResult(interface_name, property_name)
        /\ signals' = <<>>
        /\ view_calls' = <<>>
        /\ UNCHANGED state

ItemGetAll ==
    \E interface_name \in InterfaceNames :
        /\ Called(ItemObject, "GetAll", <<interface_name>>)
        /\ result' = ItemGetAllResult(interface_name)
        /\ signals' = <<>>
        /\ view_calls' = <<>>
        /\ UNCHANGED state

ItemContextMenu ==
    \E x \in Coordinates, y \in Coordinates :
        /\ Called(ItemObject, "ContextMenu", <<x, y>>)
        /\ result' = ItemInertResult(x, y)
        /\ signals' = <<>>
        /\ view_calls' = <<>>
        /\ UNCHANGED state

ItemActivate ==
    \E x \in Coordinates, y \in Coordinates :
        /\ Called(ItemObject, "Activate", <<x, y>>)
        /\ result' = ItemInertResult(x, y)
        /\ signals' = <<>>
        /\ view_calls' = <<>>
        /\ UNCHANGED state

ItemSecondaryActivate ==
    \E x \in Coordinates, y \in Coordinates :
        /\ Called(ItemObject, "SecondaryActivate", <<x, y>>)
        /\ result' = ItemInertResult(x, y)
        /\ signals' = <<>>
        /\ view_calls' = <<>>
        /\ UNCHANGED state

ItemScroll ==
    \E delta \in ScrollDeltas, orientation \in Orientations :
        /\ Called(ItemObject, "Scroll", <<delta, orientation>>)
        /\ result' = ItemInertResult(delta, orientation)
        /\ signals' = <<>>
        /\ view_calls' = <<>>
        /\ UNCHANGED state

(***************************************************************************)
(* Actions: DbusMenu                                                       *)
(***************************************************************************)
UpdateMenu ==
    \E is_visible \in BOOLEAN :
        LET r == update_menu(items, is_visible) IN
        /\ Called(MenuObject, "update_menu", <<is_visible>>)
        /\ items' = r.items
        /\ signals' = r.signals
        /\ result' = Return(None)
        /\ view_calls' = <<>>
        /\ UNCHANGED <<is_activated, status, icon_name, revision>>

GetLayout ==
    \E parent_id \in Ids, recursion_depth \in Depths, property_names \in PropertyFilters :
        /\ Called(MenuObject, "GetLayout", <<parent_id, recursion_depth, property_names>>)
        /\ result' = GetLayoutResult(items, revision, parent_id, recursion_depth, property_names)
        /\ signals' = <<>>
        /\ view_calls' = <<>>
        /\ UNCHANGED state

Event ==
    \E idx \in Ids, event_id \in EventIds, announced \in BOOLEAN :
        LET window_calls == EventViewCalls(items, idx, event_id)
            m == EventRelay(is_activated, items, window_calls, announced) IN
        /\ call' = [object |-> MenuObject, op |-> "Event", args |-> <<idx, event_id>>,
                    services |-> "registered",
                    relay |-> (announced /\ window_calls # <<>>)]
        /\ pre' = Snapshot
        /\ result' = EventResult(items, idx, event_id)
        /\ view_calls' = window_calls
        /\ items' = m.items
        /\ signals' = m.signals
        /\ UNCHANGED <<is_activated, status, icon_name, revision>>

EventGroup ==
    \E events \in EventBatches :
        /\ Called(MenuObject, "EventGroup", <<events>>)
        /\ result' = EventGroupResult(items, events)
        /\ view_calls' = EventGroupViewCalls(items, events)
        /\ signals' = <<>>
        /\ UNCHANGED state

GetGroupProperties ==
    \E ids \in IdLists, property_names \in PropertyFilters :
        /\ Called(MenuObject, "GetGroupProperties", <<ids, property_names>>)
        /\ result' = GetGroupPropertiesResult(items, ids, property_names)
        /\ signals' = <<>>
        /\ view_calls' = <<>>
        /\ UNCHANGED state

GetProperty ==
    \E idx \in Ids, name \in MenuPropertyNames :
        /\ Called(MenuObject, "GetProperty", <<idx, name>>)
        /\ result' = GetPropertyResult(items, idx, name)
        /\ signals' = <<>>
        /\ view_calls' = <<>>
        /\ UNCHANGED state

MenuGet ==
    \E interface_name \in MenuInterfaceNames, property_name \in MenuBusPropertyNames :
        /\ Called(MenuObject, "Get", <<interface_name, property_name>>)
        /\ result' = MenuGetResult(interface_name, property_name)
        /\ signals' = <<>>
        /\ view_calls' = <<>>
        /\ UNCHANGED state

MenuGetAll ==
    \E interface_name \in MenuInterfaceNames :
        /\ Called(MenuObject, "GetAll", <<interface_name>>)
        /\ result' = MenuGetAllResult(interface_name)
        /\ signals' = <<>>
        /\ view_calls' = <<>>
        /\ UNCHANGED state

AboutToShow ==
    \E idx \in Ids :
        /\ Called(MenuObject, "AboutToShow", <<idx>>)
        /\ result' = AboutToShowResult(items, idx)
        /\ signals' = <<>>
        /\ view_calls' = <<>>
        /\ UNCHANGED state

AboutToShowGroup ==
    \E ids \in IdLists :
        /\ Called(MenuObject, "AboutToShowGroup", <<ids, <<>>>>)
        /\ result' = AboutToShowGroupResult(items, ids, <<>>)
        /\ signals' = <<>>
        /\ view_calls' = <<>>
        /\ UNCHANGED state

(***************************************************************************)
(* Actions: StatusNotifierItemPlugin                                       *)
(***************************************************************************)
\* activate: super().activate() sets is_activated, then the status follows
\* session.is_running()
PluginActivate ==
    \E session_is_running \in BOOLEAN :
        LET r == IF session_is_running
                 THEN Plugin_change_status(TRUE, status, Active)
                 ELSE [status |-> status, signals |-> <<>>] IN
        /\ Called(PluginObject, "activate", <<session_is_running>>)
        /\ is_activated' = TRUE
        /\ status' = r.status
        /\ signals' = r.signals
        /\ result' = Return(None)
        /\ view_calls' = <<>>
        /\ UNCHANGED <<icon_name, items, revision>>

\* deactivate: the status change comes before super().deactivate()
PluginDeactivate ==
    LET r == Plugin_deactivate(is_activated, status) IN
    /\ Called(PluginObject, "deactivate", <<>>)
    /\ status' = r.status
    /\ signals' = r.signals
    /\ is_activated' = r.is_activated
    /\ result' = Return(None)
    /\ view_calls' = <<>>
    /\ UNCHANGED <<icon_name, items, revision>>

OnSessionStart ==
    LET r == Plugin_change_status(is_activated, status, Active)
        m == Plugin_change_visibility(is_activated, items, TRUE) IN
    /\ Called(PluginObject, "on_session_start", <<>>)
    /\ status' = r.status
    /\ items' = m.items
    /\ signals' = r.signals \o m.signals
    /\ result' = Return(None)
    /\ view_calls' = <<>>
    /\ UNCHANGED <<is_activated, icon_name, revision>>

\* on_session_stop handles SESSION_INTERRUPT and SESSION_END alike
OnSessionStop ==
    \E event \in {"SESSION_INTERRUPT", "SESSION_END"} :
        LET r == Plugin_change_status(is_activated, status, Passive) IN
        /\ Called(PluginObject, "on_session_stop", <<event>>)
        /\ status' = r.status
        /\ signals' = r.signals
        /\ result' = Return(None)
        /\ view_calls' = <<>>
        /\ UNCHANGED <<is_activated, icon_name, items, revision>>

OnTimerUpdate ==
    \E elapsed_percent \in PercentTenths :
        LET r == Plugin_change_icon(is_activated, icon_name, icon_name_of(elapsed_percent)) IN
        /\ Called(PluginObject, "on_timer_update", <<elapsed_percent>>)
        /\ icon_name' = r.icon_name
        /\ signals' = r.signals
        /\ result' = Return(None)
        /\ view_calls' = <<>>
        /\ UNCHANGED <<is_activated, status, items, revision>>

OnWindowShow ==
    LET m == Plugin_change_visibility(is_activated, items, TRUE) IN
    /\ Called(PluginObject, "on_window_show", <<>>)
    /\ items' = m.items
    /\ signals' = m.signals
    /\ result' = Return(None)
    /\ view_calls' = <<>>
    /\ UNCHANGED <<is_activated, status, icon_name, revision>>

OnWindowHide ==
    LET m == Plugin_change_visibility(is_activated, items, FALSE) IN
    /\ Called(PluginObject, "on_window_hide", <<>>)
    /\ items' = m.items
    /\ signals' = m.signals
    /\ result' = Return(None)
    /\ view_calls' = <<>>
    /\ UNCHANGED <<is_activated, status, icon_name, revision>>

Next ==
    \/ ChangeStatus
    \/ ChangeIcon
    \/ ItemGet
    \/ ItemGetAll
    \/ ItemContextMenu
    \/ ItemActivate
    \/ ItemSecondaryActivate
    \/ ItemScroll
    \/ UpdateMenu
    \/ GetLayout
    \/ Event
    \/ EventGroup
    \/ GetGroupProperties
    \/ GetProperty
    \/ AboutToShow
    \/ AboutToShowGroup
    \/ MenuGet
    \/ MenuGetAll
    \/ PluginActivate
    \/ PluginDeactivate
    \/ OnSessionStart
    \/ OnSessionStop
    \/ OnTimerUpdate
    \/ OnWindowShow
    \/ OnWindowHide

Spec == Init /\ [][Next]_vars

(***************************************************************************)
(* The plugin whose configure stopped inside StatusNotifierItem(...): the  *)
(* registration with the watcher raised, configure is not wrapped in       *)
(* suppress_errors, and status_item and dbus_menu keep the None that       *)
(* __init__ gave them (bus, graph and session are set).  A call on either  *)
(* of them raises AttributeError; no field of a service is written and no  *)
(* signal is emitted.                                                      *)
(***************************************************************************)
AttributeError == "AttributeError"

\* tomate.pomodoro.suppress_errors: an exception of the wrapped method is
\* logged and the call returns None
suppress_errors(r) == IF r.outcome = "raise" THEN Return(None) ELSE r

\* change_status / change_icon / change_visibility of the plugin while
\* status_item and dbus_menu are None: the outcome of the method
Plugin_change_status_unregistered(activated) ==
    IF activated THEN Raise(AttributeError) ELSE Return(None)

Plugin_change_icon_unregistered(activated) ==
    IF activated THEN Raise(AttributeError) ELSE Return(None)

Plugin_change_visibility_unregistered(activated) ==
    IF activated THEN Raise(AttributeError) ELSE Return(None)

\* configure raised from the registration of the item
InitUnregistered ==
    /\ is_activated = FALSE
    /\ status = Passive
    /\ icon_name = "tomate-idle"
    /\ items = InitItems
    /\ revision = 0
    /\ call = [object |-> PluginObject, op |-> "configure", args |-> <<>>,
               services |-> "absent", relay |-> FALSE]
    /\ pre = [is_activated |-> FALSE, status |-> Passive,
              icon_name |-> "tomate-idle", items |-> InitItems, revision |-> 0]
    /\ result = Raise("DBusException")
    /\ signals = <<>>
    /\ view_calls = <<>>

\* a call made on the plugin whose services are absent
CalledUnregistered(op, args) ==
    /\ call' = [object |-> PluginObject, op |-> op, args |-> args,
               services |-> "absent", relay |-> FALSE]
    /\ pre' = Snapshot

\* @suppress_errors activate
PluginActivateUnregistered ==
    \E session_is_running \in BOOLEAN :
        LET r == IF session_is_running
                 THEN Plugin_change_status_unregistered(TRUE)
                 ELSE Return(None) IN
        /\ CalledUnregistered("activate", <<session_is_running>>)
        /\ is_activated' = TRUE
        /\ result' = suppress_errors(r)
        /\ signals' = <<>>
        /\ view_calls' = <<>>
        /\ UNCHANGED <<status, icon_name, items, revision>>

\* @suppress_errors deactivate: super().deactivate() does not run when
\* change_status raised
PluginDeactivateUnregistered ==
    LET r == Plugin_change_status_unregistered(is_activated) IN
    /\ CalledUnregistered("deactivate", <<>>)
    /\ is_activated' = (IF r.outcome = "raise" THEN is_activated ELSE FALSE)
    /\ result' = suppress_errors(r)
    /\ signals' = <<>>
    /\ view_calls' = <<>>
    /\ UNCHANGED <<status, icon_name, items, revision>>

\* @suppress_errors on_session_start: change_visibility does not run when
\* change_status raised
OnSessionStartUnregistered ==
    LET r == Plugin_change_status_unregistered(is_activated)
        m == IF r.outcome = "raise" THEN r
             ELSE Plugin_change_visibility_unregistered(is_activated) IN
    /\ CalledUnregistered("on_session_start", <<>>)
    /\ result' = suppress_errors(m)
    /\ signals' = <<>>
    /\ view_calls' = <<>>
    /\ UNCHANGED state

\* @suppress_errors on_session_stop
OnSessionStopUnregistered ==
    \E event \in {"SESSION_INTERRUPT", "SESSION_END"} :
        /\ CalledUnregistered("on_session_stop", <<event>>)
        /\ result' = suppress_errors(Plugin_change_status_unregistered(is_activated))
        /\ signals' = <<>>
        /\ view_calls' = <<>>
        /\ UNCHANGED state

\* @suppress_errors on_timer_update
OnTimerUpdateUnregistered ==
    \E elapsed_percent \in TimerGrid :
        /\ CalledUnregistered("on_timer_update", <<elapsed_percent>>)
        /\ result' = suppress_errors(Plugin_change_icon_unregistered(is_activated))
        /\ signals' = <<>>
        /\ view_calls' = <<>>
        /\ UNCHANGED state

\* on_window_show and on_window_hide are not wrapped in suppress_errors
OnWindowShowUnregistered ==
    /\ CalledUnregistered("on_window_show", <<>>)
    /\ result' = Plugin_change_visibility_unregistered(is_activated)
    /\ signals' = <<>>
    /\ view_calls' = <<>>
    /\ UNCHANGED state

OnWindowHideUnregistered ==
    /\ CalledUnregistered("on_window_hide", <<>>)
    /\ result' = Plugin_change_visibility_unregistered(is_activated)
    /\ signals' = <<>>
    /\ view_calls' = <<>>
    /\ UNCHANGED state

NextUnregistered ==
    \/ PluginActivateUnregistered
    \/ PluginDeactivateUnregistered
    \/ OnSessionStartUnregistered
    \/ OnSessionStopUnregistered
    \/ OnTimerUpdateUnregistered
    \/ OnWindowShowUnregistered
    \/ OnWindowHideUnregistered

SpecUnregistered == InitUnregistered /\ [][NextUnregistered]_vars

(***************************************************************************)
(* The timer alone: the plugin is activated at some point and the timer    *)
(* ticks with percents of the grid.                                        *)
(***************************************************************************)
OnTimerUpdateGrid ==
    \E elapsed_percent \in TimerGrid :
        LET r == Plugin_change_icon(is_activated, icon_name, icon_name_of(elapsed_percent)) IN
        /\ Called(PluginObject, "on_timer_update", <<elapsed_percent>>)
        /\ icon_name' = r.icon_name
        /\ signals' = r.signals
        /\ result' = Return(None)
        /\ view_calls' = <<>>
        /\ UNCHANGED <<is_activated, status, items, revision>>

NextTimer ==
    \/ PluginActivate
    \/ OnTimerUpdateGrid

SpecTimer == Init /\ [][NextTimer]_vars

(***************************************************************************)
(* Properties                                                              *)
(***************************************************************************)
\* the values carried by the Status notifications of a signal sequence
StatusNotifications(sigs) ==
    LET sel == SelectSeq(sigs, LAMBDA s : /\ s.signal = "PropertiesChanged"
                                          /\ DOMAIN s.args[2] = {"Status"})
    IN [i \in 1..Len(sel) |-> sel[i].args[2]["Status"]]

\* C1: change_status(new_status) returns normally for each of the three
\* status values; called with the current status it changes nothing and emits
\* nothing; otherwise status becomes new_status and exactly one
\* PropertiesChanged is emitted whose only changed property is Status with
\* value new_status.  A call that repeats the previous call's argument emits
\* nothing, so the two calls together emit at most one notification.
C1_ChangeStatus ==
    [][ call'.op = "change_status" =>
          LET new_status == call'.args[1] IN
          /\ result'.outcome = "return"
          /\ pre' = Snapshot
          /\ <<is_activated', icon_name', items', revision'>>
                = <<is_activated, icon_name, items, revision>>
          /\ view_calls' = <<>>
          /\ IF new_status = status
             THEN status' = status /\ signals' = <<>>
             ELSE /\ status' = new_status
                  /\ Len(signals') = 1
                  /\ signals'[1].signal = "PropertiesChanged"
                  /\ signals'[1].args[1] = STATUS_NOTIFIER_ITEM_IFACE
                  /\ DOMAIN signals'[1].args[2] = {"Status"}
                  /\ signals'[1].args[2]["Status"] = new_status
                  /\ signals'[1].args[3] = <<>>
          /\ (call.op = "change_status" /\ call.args = call'.args)
                => (signals' = <<>> /\ Len(signals) + Len(signals') <= 1)
      ]_vars

\* C1 witness: a second change_status("NeedsAttention") right after the
\* status became "NeedsAttention"
C1_Witness ==
    /\ call.op = "change_status"
    /\ call.args[1] = "NeedsAttention"
    /\ pre.status = "NeedsAttention"
    /\ status = "NeedsAttention"
    /\ signals = <<>>

\* C2: change_icon(new_icon) called with the current icon name changes
\* nothing and emits nothing; otherwise icon_name becomes new_icon and exactly
\* one PropertiesChanged is emitted whose only changed property is IconName
\* with value new_icon.  The status is never changed.
C2_ChangeIcon ==
    call.op = "change_icon" =>
        LET new_icon == call.args[1] IN
        /\ result.outcome = "return"
        /\ status = pre.status
        /\ <<is_activated, items, revision>>
              = <<pre.is_activated, pre.items, pre.revision>>
        /\ IF new_icon = pre.icon_name
           THEN icon_name = pre.icon_name /\ signals = <<>>
           ELSE /\ icon_name = new_icon
                /\ Len(signals) = 1
                /\ signals[1].signal = "PropertiesChanged"
                /\ signals[1].args[1] = STATUS_NOTIFIER_ITEM_IFACE
                /\ DOMAIN signals[1].args[2] = {"IconName"}
                /\ signals[1].args[2]["IconName"] = new_icon
                /\ signals[1].args[3] = <<>>

\* C2 witness: change_icon replaced the icon while the status was Active
C2_Witness ==
    /\ call.op = "change_icon"
    /\ call.args[1] = "tomate-attention"
    /\ pre.icon_name = "tomate-00"
    /\ icon_name = "tomate-attention"
    /\ status = Active
    /\ Len(signals) = 1

\* C3 as stated: from status Passive, session-start followed immediately by
\* session-end leaves status Passive and the status notifications of the two
\* events are exactly Active, Passive.
C3_Original ==
    [][ ( /\ call.op = "on_session_start"
          /\ pre.status = Passive
          /\ call'.op = "on_session_stop"
          /\ call'.args[1] = "SESSION_END" )
        => ( /\ status' = Passive
             /\ StatusNotifications(signals \o signals') = <<Active, Passive>> )
      ]_vars

\* C3 amended: the same, for an activated plugin; while the plugin is not
\* activated the two events emit no status notification and status stays
\* Passive.
C3_SessionStartEnd ==
    [][ ( /\ call.op = "on_session_start"
          /\ pre.status = Passive
          /\ call'.op = "on_session_stop"
          /\ call'.args[1] = "SESSION_END" )
        => ( /\ status' = Passive
             /\ is_activated' = pre.is_activated
             /\ StatusNotifications(signals \o signals')
                  = IF pre.is_activated THEN <<Active, Passive>> ELSE <<>> )
      ]_vars

\* C3 witness: session-end handled by the activated plugin right after the
\* status had become Active, bringing it back to Passive
C3_Witness ==
    /\ call.op = "on_session_stop"
    /\ call.args[1] = "SESSION_END"
    /\ pre.is_activated
    /\ pre.status = Active
    /\ status = Passive
    /\ StatusNotifications(signals) = <<Passive>>

\* what GetGroupProperties([SHOW, HIDE], ["visible"]) answers on the entries its
VisibleReport(its) ==
    GetGroupPropertiesResult(its, <<SHOW_ID, HIDE_ID>>, <<"visible">>)

\* C4: after update_menu(v), GetGroupProperties([SHOW, HIDE], ["visible"])
\* reports visible = not v for Show and visible = v for Hide; no other
\* property of any entry changes; applying update_menu(v) again leaves the
\* entries as they are, and applying update_menu(not v) flips both flags.
C4_UpdateMenuVisibility ==
    call.op = "update_menu" =>
        LET v == call.args[1] IN
        /\ VisibleReport(items)
              = Return(<< <<SHOW_ID, "visible" :> ~v>>, <<HIDE_ID, "visible" :> v>> >>)
        /\ DOMAIN items = DOMAIN pre.items
        /\ \A idx \in DOMAIN items :
              /\ DOMAIN items[idx] = DOMAIN pre.items[idx]
              /\ \A k \in DOMAIN items[idx] :
                    (k # "visible" \/ idx \notin {SHOW_ID, HIDE_ID})
                        => items[idx][k] = pre.items[idx][k]
        /\ <<is_activated, status, icon_name, revision>>
              = <<pre.is_activated, pre.status, pre.icon_name, pre.revision>>
        /\ update_menu(items, v).items = items
        /\ VisibleReport(update_menu(items, ~v).items)
              = Return(<< <<SHOW_ID, "visible" :> v>>, <<HIDE_ID, "visible" :> ~v>> >>)

\* C4 witness: update_menu(FALSE) flipped the flags of a menu that was in the
\* window-shown configuration
C4_Witness ==
    /\ call.op = "update_menu"
    /\ call.args[1] = FALSE
    /\ pre.items[HIDE_ID]["visible"]
    /\ items[SHOW_ID]["visible"]
    /\ ~items[HIDE_ID]["visible"]

\* C5: Event(id, "clicked") on Show calls the window's show once and nothing
\* else, on Hide calls the window's hide once and nothing else, and on the
\* root calls nothing.
C5_EventClicked ==
    (call.op = "Event" /\ call.args[2] = "clicked" /\ call.args[1] \in {0, SHOW_ID, HIDE_ID}) =>
        /\ result.outcome = "return"
        /\ view_calls = CASE call.args[1] = SHOW_ID -> <<"show">>
                          [] call.args[1] = HIDE_ID -> <<"hide">>
                          [] OTHER -> <<>>

\* C5 witness: a click on Hide called the window's hide
C5_Witness ==
    /\ call.op = "Event"
    /\ call.args = <<HIDE_ID, "clicked">>
    /\ view_calls = <<"hide">>

\* C6 as stated: Event(id, "clicked") with an id that is not in the menu
\* calls no action, changes no state and returns without raising.
C6_Original ==
    (call.op = "Event" /\ call.args[2] = "clicked" /\ call.args[1] \notin DOMAIN pre.items) =>
        /\ view_calls = <<>>
        /\ Snapshot = pre
        /\ result.outcome = "return"

\* the ids of a batch that name no entry, in batch order
UnresolvedIds(its, events) ==
    LET missing == SelectSeq(events, LAMBDA e : e[1] \notin DOMAIN its)
    IN [i \in 1..Len(missing) |-> missing[i][1]]

\* the window calls made by applying Event to each element of a batch in order
RECURSIVE BatchViewCalls(_, _)
BatchViewCalls(its, events) ==
    IF events = <<>> THEN <<>>
    ELSE EventViewCalls(its, events[1][1], events[1][2])
         \o BatchViewCalls(its, Tail(events))

\* C7 as stated: EventGroup(events) applies Event to each element in order
\* and returns exactly the ids of the batch that are not in the menu.
C7_Original ==
    call.op = "EventGroup" =>
        /\ result = Return(UnresolvedIds(pre.items, call.args[1]))
        /\ view_calls = BatchViewCalls(pre.items, call.args[1])

\* C8: GetLayout with a parent id that names no entry raises, whatever the
\* recursion depth and the property filter, and leaves the menu and the
\* revision as they were.
C8_GetLayoutUnknownParent ==
    (call.op = "GetLayout" /\ call.args[1] \notin DOMAIN pre.items) =>
        /\ result.outcome = "raise"
        /\ Snapshot = pre
        /\ signals = <<>>

\* C8 witness: GetLayout(9999, -1, []) raised
C8_Witness ==
    /\ call.op = "GetLayout"
    /\ call.args = <<UnknownId, -1, <<>>>>
    /\ result = Raise("KeyError")

\* the properties a layout node is to carry: the names of the filter, or all
\* eight entry properties when the filter is empty, with the entry's values
NodeProperties(item, filter) ==
    [k \in IF filter = <<>>
           THEN {"children-display", "disposition", "enabled", "label",
                 "toggle-state", "toggle-type", "type", "visible"}
           ELSE Range(filter) |-> item[k]]

\* C9 as stated: GetLayout(parent_id, 0, filter) on an existing parent returns
\* the parent's own properties with an empty children array.
C9_Original ==
    (call.op = "GetLayout" /\ call.args[2] = 0 /\ call.args[1] \in DOMAIN pre.items) =>
        /\ result.outcome = "return"
        /\ result.value[2][1] = call.args[1]
        /\ result.value[2][2] = NodeProperties(pre.items[call.args[1]], call.args[3])
        /\ result.value[2][3] = <<>>

\* C10: for recursion depth -1 and every depth >= 1, GetLayout(0, depth,
\* filter) with a filter of known property names returns the revision and the
\* root followed by exactly Show then Hide, each child with an empty children
\* array; every node carries exactly the filter's properties, or all eight
\* when the filter is empty, with the menu's current values.
C10_GetLayoutRoot ==
    ( /\ call.op = "GetLayout"
      /\ call.args[1] = 0
      /\ call.args[2] = -1 \/ call.args[2] >= 1
      /\ Range(call.args[3]) \subseteq Range(ATTRIBUTES) ) =>
        /\ result.outcome = "return"
        /\ Len(result.value) = 2
        /\ result.value[1] = revision
        /\ Len(result.value[2]) = 3
        /\ result.value[2][1] = 0
        /\ result.value[2][2] = NodeProperties(items[0], call.args[3])
        /\ result.value[2][3] =
              << <<SHOW_ID, NodeProperties(items[SHOW_ID], call.args[3]), <<>> >>,
                 <<HIDE_ID, NodeProperties(items[HIDE_ID], call.args[3]), <<>> >> >>

\* C10 witness: GetLayout(0, 2, ["label", "visible"]) answered after the menu
\* was switched to the window-hidden configuration
C10_Witness ==
    /\ call.op = "GetLayout"
    /\ call.args = <<0, 2, <<"label", "visible">>>>
    /\ items[SHOW_ID]["visible"]
    /\ result.outcome = "return"
    /\ result.value[2][3][1][2] = ("label" :> "Show" @@ "visible" :> TRUE)

\* C11 as stated: GetGroupProperties(ids, property_names) never fails and
\* returns one element for each requested id that is in the menu, in request
\* order, and none for the ids that are not.
C11_Original ==
    call.op = "GetGroupProperties" =>
        /\ result.outcome = "return"
        /\ [i \in 1..Len(result.value) |-> result.value[i][1]]
              = SelectSeq(call.args[1], LAMBDA idx : idx \in DOMAIN pre.items)

\* C12 as stated: Get and GetAll on the item interface report the current
\* status under "Status" and the current icon name under "IconName".
C12_Original ==
    /\ (call.object = ItemObject /\ call.op = "Get"
            /\ call.args = <<STATUS_NOTIFIER_ITEM_IFACE, "Status">>)
          => result = Return(status)
    /\ (call.object = ItemObject /\ call.op = "Get"
            /\ call.args = <<STATUS_NOTIFIER_ITEM_IFACE, "IconName">>)
          => result = Return(icon_name)
    /\ (call.object = ItemObject /\ call.op = "GetAll"
            /\ call.args = <<STATUS_NOTIFIER_ITEM_IFACE>>)
          => /\ result.outcome = "return"
             /\ result.value["Status"] = status
             /\ result.value["IconName"] = icon_name

\* C13 as stated: on the item service Get with an unknown interface or an
\* unknown property returns an absent value, and GetAll with an unknown
\* interface returns no property of any known interface; neither raises.
C13_Original ==
    /\ ( /\ call.object = ItemObject
         /\ call.op = "Get"
         /\ \/ call.args[1] \notin DOMAIN StatusNotifierItem_dbus_interfaces
            \/ call.args[2] \notin DOMAIN StatusNotifierItem_dbus_interfaces[call.args[1]] )
          => result = Return(None)
    /\ ( /\ call.object = ItemObject
         /\ call.op = "GetAll"
         /\ call.args[1] \notin DOMAIN StatusNotifierItem_dbus_interfaces )
          => /\ result.outcome = "return"
             /\ DOMAIN result.value = {}

\* the handlers of the plugin
ControllerHandlers ==
    { "activate", "deactivate", "on_session_start", "on_session_stop",
      "on_timer_update", "on_window_show", "on_window_hide" }

\* C14 as stated: no handler of the plugin lets the failure of a call on the
\* item service or on the menu service reach its caller: when that call
\* raises, every handler still returns normally.
C14_Original ==
    (call.op \in ControllerHandlers /\ call.services = "absent")
        => result.outcome = "return"

\* the visible flags of Show and Hide
VisibleFlags(its) == <<its[SHOW_ID]["visible"], its[HIDE_ID]["visible"]>>

\* C15 as stated: after on_session_start the status is Active and the menu is
\* in the window-shown configuration (Show hidden, Hide visible); after
\* on_session_stop (interrupt or end) the status is Passive and the visible
\* flags are as they were before the event.
C15_Original ==
    /\ call.op = "on_session_start"
          => (status = Active /\ VisibleFlags(items) = <<FALSE, TRUE>>)
    /\ call.op = "on_session_stop"
          => (status = Passive /\ VisibleFlags(items) = VisibleFlags(pre.items))

\* C15 amended: the same for an activated plugin; while the plugin is not
\* activated neither event changes the status or the menu.
C15_SessionEvents ==
    /\ call.op = "on_session_start"
          => IF pre.is_activated
             THEN status = Active /\ VisibleFlags(items) = <<FALSE, TRUE>>
             ELSE Snapshot = pre
    /\ call.op = "on_session_stop"
          => IF pre.is_activated
             THEN status = Passive /\ VisibleFlags(items) = VisibleFlags(pre.items)
             ELSE Snapshot = pre

\* C15 witness: the activated plugin handled session-start while the status
\* was Passive and the menu was in the window-hidden configuration
C15_Witness ==
    /\ call.op = "on_session_start"
    /\ pre.is_activated
    /\ pre.status = Passive
    /\ VisibleFlags(pre.items) = <<TRUE, FALSE>>
    /\ status = Active
    /\ VisibleFlags(items) = <<FALSE, TRUE>>

\* the ItemsPropertiesUpdated notifications of a signal sequence
MenuNotifications(sigs) ==
    SelectSeq(sigs, LAMBDA sig : sig.signal = "ItemsPropertiesUpdated")

\* the calls that reached update_menu, and the argument they handed to it
ReachedUpdateMenu ==
    \/ call.op = "update_menu"
    \/ call.op \in {"on_window_show", "on_window_hide", "on_session_start"} /\ pre.is_activated
    \/ call.op = "Event" /\ call.relay /\ pre.is_activated

UpdateMenuArgument ==
    CASE call.op = "update_menu" -> call.args[1]
      [] call.op = "on_window_hide" -> FALSE
      [] call.op = "Event" -> view_calls = <<"show">>
      [] OTHER -> TRUE

\* the rendered properties an ItemsPropertiesUpdated payload lists for entry idx
ListedProperties(update_props, idx) ==
    LET sel == SelectSeq(update_props, LAMBDA e : e[1] = idx)
    IN [i \in 1..Len(sel) |-> sel[i][2]]

\* C16: every call of update_menu(v), direct or through a handler of the
\* activated plugin, emits exactly one ItemsPropertiesUpdated, also when the
\* flags were already as asked; it removes no property and lists Show and
\* Hide, once each, with all their properties as they are after the update:
\* Show with visible = not v and Hide with visible = v.
C16_UpdateMenuNotification ==
    ReachedUpdateMenu =>
        LET v == UpdateMenuArgument
            sent == MenuNotifications(signals) IN
        /\ Len(sent) = 1
        /\ sent[1] = signals[Len(signals)]
        /\ sent[1].args[2] = <<>>
        /\ ListedProperties(sent[1].args[1], SHOW_ID) = <<NodeProperties(items[SHOW_ID], <<>>)>>
        /\ ListedProperties(sent[1].args[1], HIDE_ID) = <<NodeProperties(items[HIDE_ID], <<>>)>>
        /\ ListedProperties(sent[1].args[1], SHOW_ID)[1]["visible"] = ~v
        /\ ListedProperties(sent[1].args[1], HIDE_ID)[1]["visible"] = v

\* C16 witness: update_menu(TRUE) on a menu already in the window-shown
\* configuration still emitted its notification
C16_Witness ==
    /\ call.op = "update_menu"
    /\ call.args[1] = TRUE
    /\ VisibleFlags(pre.items) = <<FALSE, TRUE>>
    /\ items = pre.items
    /\ Len(MenuNotifications(signals)) = 1

\* C17: the revision of the menu is in every reachable state the one set at
\* construction (0); every GetLayout that returns carries it; no LayoutUpdated
\* signal is emitted by any call (update_menu uses ItemsPropertiesUpdated).
C17_RevisionConstant ==
    /\ revision = 0
    /\ pre.revision = 0
    /\ (call.op = "GetLayout" /\ result.outcome = "return") => result.value[1] = 0
    /\ \A i \in 1..Len(signals) : signals[i].signal # "LayoutUpdated"

\* C17 witness: a GetLayout answered with revision 0 right after the flags of
\* the menu had been toggled to the window-hidden configuration
C17_Witness ==
    /\ call.op = "GetLayout"
    /\ call.args = <<0, -1, <<>>>>
    /\ VisibleFlags(items) = <<TRUE, FALSE>>
    /\ result.outcome = "return"
    /\ result.value[1] = 0
    /\ revision = 0

\* the names of the signals a call emitted
SignalNames(sigs) == {sigs[i].signal : i \in 1..Len(sigs)}

\* C18 as stated: whenever change_icon changes the icon name the NewIcon
\* signal is emitted; NewTitle, NewAttentionIcon and NewOverlayIcon are never
\* emitted.
C18_Original ==
    /\ (call.op = "change_icon" /\ icon_name # pre.icon_name)
          => "NewIcon" \in SignalNames(signals)
    /\ SignalNames(signals) \cap {"NewTitle", "NewAttentionIcon", "NewOverlayIcon"} = {}

\* C19 as stated: Event on an existing entry with an event id other than
\* "clicked" calls nothing on the window, changes no state and returns
\* without raising, also when the event id is the name of an entry property.
C19_Original ==
    (call.op = "Event" /\ call.args[1] \in DOMAIN pre.items /\ call.args[2] # "clicked") =>
        /\ view_calls = <<>>
        /\ Snapshot = pre
        /\ result.outcome = "return"

\* the internal keys of an entry: the children list and the bound action
InternalKeys == {"submenu", "clicked"}

\* the filter of a GetLayout or GetGroupProperties call, or the empty filter
FilterOfCall ==
    CASE call.op = "GetLayout" -> call.args[3]
      [] call.op = "GetGroupProperties" -> call.args[2]
      [] OTHER -> <<>>

\* the property maps a GetLayout or GetGroupProperties answer carries
RenderedMaps ==
    IF result.outcome # "return" THEN {}
    ELSE CASE call.op = "GetLayout" ->
                {result.value[2][2]}
                    \cup {result.value[2][3][i][2] : i \in 1..Len(result.value[2][3])}
           [] call.op = "GetGroupProperties" ->
                {result.value[i][2] : i \in 1..Len(result.value)}
           [] OTHER -> {}

\* C20 as stated: GetLayout on an existing parent and GetGroupProperties,
\* called with a filter that holds a name which is no entry property, return
\* without raising, every returned property map holds only names that are
\* both in the filter and entry properties, and no filter makes an answer
\* carry an internal key of an entry (its children list, its bound action).
C20_Original ==
    /\ ( /\ call.op \in {"GetLayout", "GetGroupProperties"}
         /\ call.op = "GetLayout" => call.args[1] \in DOMAIN pre.items
         /\ ~(Range(FilterOfCall) \subseteq Range(ATTRIBUTES)) )
          => /\ result.outcome = "return"
             /\ \A m \in RenderedMaps :
                   DOMAIN m \subseteq Range(FilterOfCall) \cap Range(ATTRIBUTES)
    /\ \A m \in RenderedMaps : DOMAIN m \cap InternalKeys = {}

\* the methods remote callers reach over the bus
MenuRemoteMethods ==
    { "GetLayout", "GetGroupProperties", "GetProperty", "AboutToShow",
      "AboutToShowGroup", "Event", "EventGroup", "Get", "GetAll" }

ItemRemoteMethods ==
    { "Get", "GetAll", "Activate", "SecondaryActivate", "ContextMenu", "Scroll" }

\* the menu methods of remote callers that call nothing outside the menu
MenuReadMethods == MenuRemoteMethods \ {"Event"}

\* C21 as stated: a call of a remote caller changes no state, whether it
\* returns or raises: the methods of the menu, Event among them, leave every
\* entry and the revision as they were, AboutToShow answers False, and the
\* methods of the item leave status and icon name as they were; none of them
\* emits a signal.
C21_Original ==
    /\ (call.object = MenuObject /\ call.op \in MenuRemoteMethods) =>
          /\ items = pre.items
          /\ revision = pre.revision
          /\ Snapshot = pre
          /\ signals = <<>>
    /\ call.op = "AboutToShow" =>
          (result.outcome = "return" /\ result.value = FALSE)
    /\ (call.object = ItemObject /\ call.op \in ItemRemoteMethods) =>
          /\ status = pre.status
          /\ icon_name = pre.icon_name
          /\ Snapshot = pre
          /\ signals = <<>>

\* C21: a call of a remote caller writes no state itself, whether it returns
\* or raises.  Every method of the menu but Event leaves all state as it was
\* and emits nothing, and AboutToShow answers False; so does every method of
\* the item.  Event never touches the revision, the status, the icon name,
\* the activation, an entry's children list or action, or any property but
\* the visible flags of Show and Hide; it changes a flag or emits a signal
\* only when it called a window method, the window announced itself within
\* the call and the plugin is activated, and then it emits exactly one
\* ItemsPropertiesUpdated and leaves Show visible after hide() and Hide
\* visible after show(), exactly one of the two.
C21_RemoteCallsFrame ==
    /\ (call.object = MenuObject /\ call.op \in MenuReadMethods) =>
          /\ Snapshot = pre
          /\ signals = <<>>
    /\ call.op = "AboutToShow" =>
          (result.outcome = "return" /\ result.value = FALSE)
    /\ (call.object = ItemObject /\ call.op \in ItemRemoteMethods) =>
          /\ Snapshot = pre
          /\ signals = <<>>
    /\ call.op = "Event" =>
          /\ revision = pre.revision
          /\ status = pre.status
          /\ icon_name = pre.icon_name
          /\ is_activated = pre.is_activated
          /\ DOMAIN items = DOMAIN pre.items
          /\ \A idx \in DOMAIN items :
                /\ DOMAIN items[idx] = DOMAIN pre.items[idx]
                /\ \A k \in DOMAIN items[idx] :
                      (k # "visible" \/ idx \notin {SHOW_ID, HIDE_ID})
                          => items[idx][k] = pre.items[idx][k]
          /\ (items # pre.items \/ signals # <<>>) =>
                /\ pre.is_activated
                /\ result.outcome = "return"
                /\ view_calls \in {<<"show">>, <<"hide">>}
          /\ (call.relay /\ pre.is_activated) =>
                /\ Len(signals) = 1
                /\ signals[1].signal = "ItemsPropertiesUpdated"
                /\ VisibleFlags(items) =
                      <<view_calls = <<"hide">>, view_calls = <<"show">> >>
          /\ (~call.relay \/ ~pre.is_activated) =>
                /\ items = pre.items
                /\ signals = <<>>

\* C21 witness: a click on Hide whose window announced itself to the
\* activated plugin flipped the two visible flags and emitted one signal,
\* with the revision and the status of the item as they were
C21_Witness ==
    /\ call.op = "Event"
    /\ call.args = <<HIDE_ID, "clicked">>
    /\ call.relay
    /\ pre.is_activated
    /\ pre.status = Active
    /\ status = Active
    /\ view_calls = <<"hide">>
    /\ VisibleFlags(pre.items) = <<FALSE, TRUE>>
    /\ VisibleFlags(items) = <<TRUE, FALSE>>
    /\ Len(signals) = 1
    /\ revision = pre.revision

\* the icon name of the whole number n, padded with zeros to two digits
IconOfWhole(n) == "tomate-" \o (IF n < 10 THEN "0" \o Decimal(n) ELSE Decimal(n))

\* n is a whole number nearest to the percent given in tenths (it is then
\* the whole part of the percent or the whole number after it)
NearestWhole(n, tenths) ==
    IF 10 * n >= tenths THEN 10 * n - tenths <= 5 ELSE tenths - 10 * n <= 5

\* the IconName notifications of a signal sequence
IconNotifications(sigs) ==
    SelectSeq(sigs, LAMBDA sig : /\ sig.signal = "PropertiesChanged"
                                 /\ DOMAIN sig.args[2] = {"IconName"})

\* C22 as stated: on_timer_update(percent) sets the icon to the name of
\* percent rounded to the nearest whole number and padded to two digits, 99.6
\* giving "100" and 0 giving "00"; two consecutive ticks that map to the same
\* name emit at most one IconName notification.
C22_Original ==
    [][ call'.op = "on_timer_update" =>
          LET t == call'.args[1] IN
          /\ \E n \in {t \div 10, t \div 10 + 1} :
                NearestWhole(n, t) /\ icon_name' = IconOfWhole(n)
          /\ t = 996 => icon_name' = "tomate-100"
          /\ t = 0 => icon_name' = "tomate-00"
          /\ (call.op = "on_timer_update" /\ icon_name' = icon_name)
                => Len(IconNotifications(signals \o signals')) <= 1
      ]_vars

\* C22 amended: the same for an activated plugin; a tick handled while the
\* plugin is not activated leaves the icon name as it was and emits nothing.
C22_TimerTick ==
    [][ call'.op = "on_timer_update" =>
          LET t == call'.args[1] IN
          /\ is_activated' = is_activated
          /\ IF is_activated
             THEN /\ \E n \in {t \div 10, t \div 10 + 1} :
                        NearestWhole(n, t) /\ icon_name' = IconOfWhole(n)
                  /\ t = 996 => icon_name' = "tomate-100"
                  /\ t = 0 => icon_name' = "tomate-00"
                  /\ Len(IconNotifications(signals'))
                        = (IF icon_name' = icon_name THEN 0 ELSE 1)
             ELSE icon_name' = icon_name /\ signals' = <<>>
          /\ (call.op = "on_timer_update" /\ icon_name' = icon_name)
                => Len(IconNotifications(signals \o signals')) <= 1
      ]_vars

\* C22 witness: the activated plugin handled a tick of 99.6 percent right
\* after a tick that had set another icon, and set "tomate-100"
C22_Witness ==
    /\ call.op = "on_timer_update"
    /\ call.args[1] = 996
    /\ pre.is_activated
    /\ pre.icon_name = "tomate-02"
    /\ icon_name = "tomate-100"
    /\ Len(IconNotifications(signals)) = 1

\* C23: in every reachable state exactly one of Show and Hide is visible, the
\* root is visible, and the root's children list is [Show, Hide], both ids
\* naming entries of the menu; the menu has these three entries and no other.
C23_MenuInvariant ==
    /\ DOMAIN items = {0, SHOW_ID, HIDE_ID}
    /\ items[SHOW_ID]["visible"] = ~items[HIDE_ID]["visible"]
    /\ items[0]["visible"] = TRUE
    /\ items[0]["submenu"] = <<SHOW_ID, HIDE_ID>>
    /\ \A i \in 1..Len(items[0]["submenu"]) : items[0]["submenu"][i] \in DOMAIN items
    /\ "submenu" \notin DOMAIN items[SHOW_ID]
    /\ "submenu" \notin DOMAIN items[HIDE_ID]

\* C23 witness: a click on Show was handled while the menu was in the
\* window-hidden configuration, after update_menu had toggled the flags
C23_Witness ==
    /\ call.op = "Event"
    /\ call.args = <<SHOW_ID, "clicked">>
    /\ view_calls = <<"show">>
    /\ VisibleFlags(items) = <<TRUE, FALSE>>
    /\ items[0]["submenu"] = <<SHOW_ID, HIDE_ID>>

\* the handlers of the session, timer and window events
ControllerEvents ==
    { "on_session_start", "on_session_stop", "on_timer_update",
      "on_window_show", "on_window_hide" }

\* C24: an event handled while the plugin is not activated returns and
\* leaves the status, the icon name, every entry of the menu and the
\* activation flag as they were, and emits no signal; hence an event that
\* changed the item or the menu was handled by an activated plugin.
C24_NotActivatedFrame ==
    call.op \in ControllerEvents =>
        /\ ~pre.is_activated =>
              /\ result.outcome = "return"
              /\ status = pre.status
              /\ icon_name = pre.icon_name
              /\ items = pre.items
              /\ Snapshot = pre
              /\ signals = <<>>
              /\ view_calls = <<>>
        /\ (status # pre.status \/ icon_name # pre.icon_name \/ items # pre.items)
              => pre.is_activated

\* C24 witness: a tick of 99.6 percent handled after the plugin had been
\* deactivated left the icon the timer had set before
C24_Witness ==
    /\ call.op = "on_timer_update"
    /\ call.args[1] = 996
    /\ ~pre.is_activated
    /\ pre.icon_name = "tomate-00"
    /\ icon_name = "tomate-00"
    /\ signals = <<>>

\* C25: deactivate on an activated plugin leaves the status Passive and the
\* plugin not activated; while the plugin is not activated no call other than
\* activate (and other than a direct change_status on the item service)
\* changes the status or the flag, so the status stays Passive until the
\* next activate; activate with the session running leaves the status Active,
\* activate with the session not running leaves the status as it was; both
\* leave the plugin activated.
C25_ActivationOrder ==
    [][ /\ call'.op = "deactivate" => ~is_activated'
        /\ (call'.op = "deactivate" /\ is_activated) => status' = Passive
        /\ (~is_activated /\ call'.op \notin {"activate", "change_status"})
              => (status' = status /\ ~is_activated')
        /\ call'.op = "activate" =>
              /\ is_activated'
              /\ status' = (IF call'.args[1] THEN Active ELSE status)
      ]_vars

\* C25 witness: deactivate on an activated plugin whose status was Active
\* brought the status to Passive, with its notification, and cleared the flag
C25_Witness ==
    /\ call.op = "deactivate"
    /\ pre.is_activated
    /\ pre.status = Active
    /\ status = Passive
    /\ ~is_activated
    /\ StatusNotifications(signals) = <<Passive>>

====
